---------------------------- MODULE Spec2Model ----------------------------
(***************************************************************************)
(* State-machine model of the storefront widgets of ecommerce-fashion:     *)
(*   - RunningCarousel, gallery variant      (src/unnamed/part_000:1-175)  *)
(*   - RunningCarousel, images-prop variant  (src/unnamed/part_000:176-288)*)
(*   - ProductSale grid + quick-view modal                                 *)
(*       (src/components/main/home-page/product-sale.tsx)                  *)
(*                                                                         *)
(* One step of the model is one task of the browser's event loop: a DOM    *)
(* event handler, a timer callback or a change of a prop / query result,   *)
(* together with the React render and the effects that it triggers.        *)
(***************************************************************************)
EXTENDS Integers, Sequences, FiniteSets, TLC

VARIABLES
    \* ---- RunningCarousel (one mounted instance of either variant) ----
    variant,        \* "gallery" | "images": which of the two components
    mounted,        \* the carousel instance is mounted
    galleryData,    \* gallery: useGetGalleryListQuery().data ({} = undefined)
    galleryLoading, \* gallery: isLoading
    galleryError,   \* gallery: isError
    images,         \* images variant: the images prop ({} = undefined)
    intervalMs,     \* the intervalMs prop
    index,          \* useState(0)
    paused,         \* useState(false)
    timers,         \* live window.setInterval timers: [id, n, ms] (the items.length and intervalMs captured)
    timerRef,       \* timerRef.current (0 = null)
    hasCleanup,     \* the last run of the autoplay effect returned its cleanup
    pointerOver,    \* the pointer is physically over the widget's root element
    trail,          \* history: the last (at most 2) arrow clicks with no other event since
    lastTick,       \* history: the index the last step, if a timer tick, found ({} otherwise)
    navRun,         \* history: the navigation steps since an observation began ({} = none going on)
    \* ---- ProductSale (grid + quick-view modal) ----
    saleMounted,    \* the ProductSale instance is mounted
    data,           \* useGetProductListQuery().data?.data ({} = undefined)
    isLoading,      \* useGetProductListQuery().isLoading
    isError,        \* useGetProductListQuery().isError
    itemsGen,       \* which evaluation of the items useMemo built the current SaleItem objects
    active,         \* useState<SaleItem | null>(null) ({} = null)
    activeImg,      \* useState(0)
    color,          \* useState<string | null>(null)
    size,           \* useState<string | null>(null)
    qty,            \* useState(1)
    total,          \* the value held by useMemo(..., [active, qty]) after the last render
    overflow,       \* document.documentElement.style.overflow
    focusTimers,    \* pending setTimeout(() => closeBtnRef.current?.focus(), 0) callbacks
    focus,          \* document.activeElement: an element of the modal panel, or "page" (outside it)
    emitted,        \* the cart:add details dispatched on window by the last ProductSale step
    alerted,        \* the last ProductSale step showed the blocking alert()
    lastOpen,       \* history: what the last step, if a card click, found ({} otherwise)
    lastKey         \* history: the key the last step, if a keydown, handled ({} otherwise)

carouselVars == <<variant, mounted, galleryData, galleryLoading, galleryError,
                  images, intervalMs, index, paused, timers, timerRef,
                  hasCleanup, pointerOver, trail, lastTick, navRun>>

saleVars == <<saleMounted, data, isLoading, isError, itemsGen, active, activeImg,
              color, size, qty, total, overflow, focusTimers, focus, emitted, alerted,
              lastOpen, lastKey>>

vars == <<carouselVars, saleVars>>

-----------------------------------------------------------------------------
(* Bounds of the model *)

MaxImages == 3
CatalogSize == 4
MaxRefetch == 2
MaxQty == 5
MaxFocusTimers == 1
MaxPrice == 8
MaxRunSteps == 2

-----------------------------------------------------------------------------
(* JavaScript arithmetic *)

\* The value of x % 0 (NaN), kept apart from every index the model can reach.
NaN == -1000

\* JavaScript's remainder: the sign of the dividend, NaN for a zero divisor.
JsMod(a, n) ==
    IF n = 0 THEN NaN
    ELSE IF a >= 0 THEN a % n
    ELSE -((-a) % n)

-----------------------------------------------------------------------------
(* RunningCarousel: derived values *)

\* What the field `image` of a gallery record can hold: a non-empty URL, the
\* empty string, or a non-string (File | null).
ImageValues == {"a.jpg", "", "NOT_A_STRING"}

RECURSIVE SeqsUpTo(_, _)
SeqsUpTo(S, n) ==
    IF n = 0 THEN {<<>>}
    ELSE LET shorter == SeqsUpTo(S, n - 1)
         IN  shorter \cup {Append(s, x) : s \in {t \in shorter : Len(t) = n - 1}, x \in S}

\* data?.data ?? [] then .map(image is a string ? image : "").filter(non-empty)
GalleryItems(d) ==
    LET list   == IF d = {} THEN <<>> ELSE CHOOSE l \in d : TRUE
        mapped == [k \in 1..Len(list) |->
                     IF list[k] = "NOT_A_STRING" THEN "" ELSE list[k]]
    IN  SelectSeq(mapped, LAMBDA u : u # "")

DEFAULT_IMAGE == "default.jpg"

\* images?.length ? images : [DEFAULT_IMAGE, DEFAULT_IMAGE, DEFAULT_IMAGE]
ImagesItems(im) ==
    LET list == IF im = {} THEN <<>> ELSE CHOOSE l \in im : TRUE
    IN  IF Len(list) # 0 THEN list ELSE <<DEFAULT_IMAGE, DEFAULT_IMAGE, DEFAULT_IMAGE>>

ItemsOf(v, gd, im) == IF v = "gallery" THEN GalleryItems(gd) ELSE ImagesItems(im)

items == ItemsOf(variant, galleryData, images)

N == Len(items)

showArrows == TRUE
showDots == TRUE

\* TrackRenderedIn with a fault: the failure of the query is not looked at.
TrackRenderedIgnoringError(v, loading, error, n) ==
    IF v = "gallery" THEN ~loading /\ ~(n = 0) ELSE TRUE

\* The track (with the hover handlers) is rendered, not a placeholder panel.
TrackRenderedIn(v, loading, error, n) ==
    IF v = "gallery" THEN ~loading /\ ~(error \/ n = 0) ELSE TRUE

TrackRendered == mounted /\ TrackRenderedIn(variant, galleryLoading, galleryError, N)

ArrowsShown ==
    /\ TrackRendered
    /\ IF variant = "gallery" THEN showArrows /\ N > 1 ELSE showArrows

DotsShown ==
    /\ TrackRendered
    /\ IF variant = "gallery" THEN showDots /\ N > 1 ELSE showDots

\* Go with a fault: the step stops at the ends instead of wrapping around.
GoClamped(i, dir, n) ==
    IF i + dir < 0 THEN 0 ELSE IF i + dir > n - 1 THEN n - 1 ELSE i + dir

\* Go with a fault: items.length is not added before the remainder.
GoNoOffset(i, dir, n) == JsMod(i + dir, n)

\* go(dir): setIndex((i) => (i + dir + items.length) % items.length)
Go(i, dir, n) == JsMod(i + dir + n, n)

\* Advance with a fault: no wrap-around.
AdvanceNoWrap(i, n) == i + 1

\* The interval callback: setIndex((i) => (i + 1) % items.length)
Advance(i, n) == JsMod(i + 1, n)

-----------------------------------------------------------------------------
(* RunningCarousel: effects *)

\* GalleryAutoplaySkips with a fault: the item count is not looked at.
GalleryAutoplaySkipsPausedOnly(p, n) == p

\* The early return of the autoplay effect: no timer is armed.
GalleryAutoplaySkips(p, n) == p \/ n <= 1
ImagesAutoplaySkips(p, n) == p

AutoplaySkips(v, p, n) ==
    IF v = "gallery" THEN GalleryAutoplaySkips(p, n) ELSE ImagesAutoplaySkips(p, n)

\* The cleanup of the autoplay effect: clearInterval(timerRef.current).
ClearRef(ts, ref) == {t \in ts : t.id # ref}

FreshId(ts) == CHOOSE k \in 1..(Cardinality(ts) + 1) : \A t \in ts : t.id # k

\* AutoplayEffect with a fault: the effect returns no cleanup, so the timer
\* of the previous run is never cleared.
AutoplayEffectNoCleanup(oldDeps, newDeps, v, ts, ref, cl) ==
    IF oldDeps = newDeps
    THEN [timers |-> ts, timerRef |-> ref, hasCleanup |-> cl]
    ELSE IF AutoplaySkips(v, newDeps[3], newDeps[1])
         THEN [timers |-> ts, timerRef |-> ref, hasCleanup |-> FALSE]
         ELSE LET id == FreshId(ts)
              IN  [timers     |-> ts \cup {[id |-> id, n |-> newDeps[1], ms |-> newDeps[2]]},
                   timerRef   |-> id,
                   hasCleanup |-> FALSE]

\* The autoplay effect after a render with deps [items.length, intervalMs, paused]:
\* unchanged deps leave it alone; otherwise the previous run's cleanup (if it
\* returned one) runs, then the effect body.
AutoplayEffect(oldDeps, newDeps, v, ts, ref, cl) ==
    IF oldDeps = newDeps
    THEN [timers |-> ts, timerRef |-> ref, hasCleanup |-> cl]
    ELSE LET cleared == IF cl THEN ClearRef(ts, ref) ELSE ts
         IN  IF AutoplaySkips(v, newDeps[3], newDeps[1])
             THEN [timers |-> cleared, timerRef |-> ref, hasCleanup |-> FALSE]
             ELSE LET id == FreshId(cleared)
                  IN  [timers     |-> cleared \cup {[id |-> id, n |-> newDeps[1], ms |-> newDeps[2]]},
                       timerRef   |-> id,
                       hasCleanup |-> TRUE]

\* The gallery variant's reset effect, deps [items.length]: setIndex(0).
GalleryResetEffect(oldN, newN, i) == IF oldN # newN THEN 0 ELSE i

\* ImagesResetEffect with a fault: every commit resets the index.
ImagesResetEffectAlways(oldN, newN, i) == 0

\* The images variant has no reset effect: the index is kept.
ImagesResetEffect(oldN, newN, i) == i

ResetEffect(v, oldN, newN, i) ==
    IF v = "gallery" THEN GalleryResetEffect(oldN, newN, i)
    ELSE ImagesResetEffect(oldN, newN, i)

Deps == <<N, intervalMs, paused>>

\* Render + effects after the props / query result / paused flag changed.
Commit(newN, newInterval, newPaused, newIndex) ==
    LET e == AutoplayEffect(Deps, <<newN, newInterval, newPaused>>, variant,
                            timers, timerRef, hasCleanup)
    IN  /\ index' = ResetEffect(variant, N, newN, newIndex)
        /\ timers' = e.timers
        /\ timerRef' = e.timerRef
        /\ hasCleanup' = e.hasCleanup


-----------------------------------------------------------------------------
(* RunningCarousel: inputs *)

IntervalChoices == {3000, 3500}

\* The values of the images prop: undefined, or a list of 0..MaxImages URLs.
ImagesProps == {{}} \cup {{s} : s \in SeqsUpTo({"a.jpg"}, MaxImages)}

\* The results of useGetGalleryListQuery: {data, isLoading, isError}. isLoading
\* is the first load (no data yet, no error); an error may keep earlier data.
GalleryDatas == {{}} \cup {{s} : s \in SeqsUpTo(ImageValues, MaxImages)}

GalleryResults ==
    {r \in [data : GalleryDatas, isLoading : BOOLEAN, isError : BOOLEAN] :
        r.isLoading => (r.data = {} /\ ~r.isError)}

LastTwo(s) == IF Len(s) > 2 THEN SubSeq(s, Len(s) - 1, Len(s)) ELSE s

\* An observed run of navigation steps: the index it started from (or the dot
\* selected since), the forward steps (ticks and "next" clicks) and backward
\* steps ("prev" clicks) taken since, whether a tick was among them, and
\* whether it restarted from a dot. Nothing is observed until BeginRun.
RunFrom(i, fromDot) ==
    {[start |-> i, fwd |-> 0, back |-> 0, ticked |-> FALSE, dot |-> fromDot]}

\* The run after one more step in direction dir; a run longer than
\* MaxRunSteps in a direction is no longer followed.
StepRun(r, dir, tick) ==
    IF r = {} THEN {}
    ELSE LET x == CHOOSE y \in r : TRUE
         IN  IF dir = 1
             THEN IF x.fwd < MaxRunSteps
                  THEN {[x EXCEPT !.fwd = @ + 1, !.ticked = @ \/ tick]}
                  ELSE {}
             ELSE IF x.back < MaxRunSteps
                  THEN {[x EXCEPT !.back = @ + 1]}
                  ELSE {}

-----------------------------------------------------------------------------
(* RunningCarousel: initial state (after the mount effects have run) *)

InitCarousel ==
    /\ variant \in {"gallery", "images"}
    /\ mounted = TRUE
    /\ galleryData = {}
    /\ galleryLoading = (variant = "gallery")
    /\ galleryError = FALSE
    /\ images \in (IF variant = "images" THEN ImagesProps ELSE {{}})
    /\ intervalMs = (IF variant = "gallery" THEN 3000 ELSE 3500)
    /\ index = 0
    /\ paused = FALSE
    /\ LET n == Len(ItemsOf(variant, galleryData, images))
           e == AutoplayEffect(<<>>, <<n, intervalMs, FALSE>>, variant, {}, 0, FALSE)
       IN  /\ timers = e.timers
           /\ timerRef = e.timerRef
           /\ hasCleanup = e.hasCleanup
    /\ pointerOver = FALSE
    /\ trail = <<>>
    /\ lastTick = {}
    /\ navRun = {}

-----------------------------------------------------------------------------
(* RunningCarousel: operations *)

\* The interval callback of a live timer fires.
Tick ==
    /\ \E t \in timers : index' = Advance(index, t.n)
    /\ trail' = <<>>
    /\ lastTick' = {[pre |-> index]}
    /\ navRun' = StepRun(navRun, 1, TRUE)
    /\ UNCHANGED <<variant, mounted, galleryData, galleryLoading, galleryError,
                   images, intervalMs, paused, timers, timerRef, hasCleanup,
                   pointerOver>>
    /\ UNCHANGED saleVars

\* onClick of the "Next slide" / "Previous slide" buttons: go(1), go(-1).
ClickArrow(dir) ==
    /\ ArrowsShown
    /\ index' = Go(index, dir, N)
    /\ trail' = LastTwo(Append(trail, [dir |-> dir, pre |-> index]))
    /\ lastTick' = {}
    /\ navRun' = StepRun(navRun, dir, FALSE)
    /\ UNCHANGED <<variant, mounted, galleryData, galleryLoading, galleryError,
                   images, intervalMs, paused, timers, timerRef, hasCleanup,
                   pointerOver>>
    /\ UNCHANGED saleVars

ClickNext == ClickArrow(1)

ClickPrev == ClickArrow(-1)

\* onClick of dot i: setIndex(i).
ClickDot ==
    /\ DotsShown
    /\ \E i \in 0..(N - 1) : index' = i
    /\ trail' = <<>>
    /\ lastTick' = {}
    /\ navRun' = (IF navRun = {} THEN {} ELSE RunFrom(index', TRUE))
    /\ UNCHANGED <<variant, mounted, galleryData, galleryLoading, galleryError,
                   images, intervalMs, paused, timers, timerRef, hasCleanup,
                   pointerOver>>
    /\ UNCHANGED saleVars

\* The pointer moves onto / off the widget; onMouseEnter / onMouseLeave exist
\* only on the root element of the track, not on the placeholder panels.
SetPaused(p) ==
    IF TrackRendered
    THEN /\ paused' = p
         /\ Commit(N, intervalMs, p, index)
    ELSE UNCHANGED <<paused, index, timers, timerRef, hasCleanup>>

MouseEnter ==
    /\ mounted
    /\ ~pointerOver
    /\ pointerOver' = TRUE
    /\ SetPaused(TRUE)
    /\ trail' = <<>>
    /\ lastTick' = {}
    /\ navRun' = navRun
    /\ UNCHANGED <<variant, mounted, galleryData, galleryLoading, galleryError,
                   images, intervalMs>>
    /\ UNCHANGED saleVars

MouseLeave ==
    /\ mounted
    /\ pointerOver
    /\ pointerOver' = FALSE
    /\ SetPaused(FALSE)
    /\ trail' = <<>>
    /\ lastTick' = {}
    /\ navRun' = navRun
    /\ UNCHANGED <<variant, mounted, galleryData, galleryLoading, galleryError,
                   images, intervalMs>>
    /\ UNCHANGED saleVars

\* The gallery query delivers another result: render, reset effect, autoplay effect.
GalleryResult ==
    /\ mounted
    /\ variant = "gallery"
    /\ \E r \in GalleryResults :
         /\ <<r.data, r.isLoading, r.isError>> # <<galleryData, galleryLoading, galleryError>>
         /\ galleryData' = r.data
         /\ galleryLoading' = r.isLoading
         /\ galleryError' = r.isError
         /\ Commit(Len(GalleryItems(r.data)), intervalMs, paused, index)
    /\ trail' = <<>>
    /\ lastTick' = {}
    /\ navRun' = {}
    /\ UNCHANGED <<variant, mounted, images, intervalMs, paused, pointerOver>>
    /\ UNCHANGED saleVars

\* The parent passes another images prop: render, autoplay effect.
ImagesProp ==
    /\ mounted
    /\ variant = "images"
    /\ \E im \in ImagesProps :
         /\ im # images
         /\ images' = im
         /\ Commit(Len(ImagesItems(im)), intervalMs, paused, index)
    /\ trail' = <<>>
    /\ lastTick' = {}
    /\ navRun' = {}
    /\ UNCHANGED <<variant, mounted, galleryData, galleryLoading, galleryError,
                   intervalMs, paused, pointerOver>>
    /\ UNCHANGED saleVars

\* The parent passes another intervalMs prop.
IntervalProp ==
    /\ mounted
    /\ \E ms \in IntervalChoices :
         /\ ms # intervalMs
         /\ intervalMs' = ms
         /\ Commit(N, ms, paused, index)
    /\ trail' = <<>>
    /\ lastTick' = {}
    /\ navRun' = {}
    /\ UNCHANGED <<variant, mounted, galleryData, galleryLoading, galleryError,
                   images, paused, pointerOver>>
    /\ UNCHANGED saleVars

\* The carousel is unmounted: the autoplay effect's cleanup runs.
UnmountCarousel ==
    /\ mounted
    /\ mounted' = FALSE
    /\ timers' = (IF hasCleanup THEN ClearRef(timers, timerRef) ELSE timers)
    /\ hasCleanup' = FALSE
    /\ trail' = <<>>
    /\ lastTick' = {}
    /\ navRun' = {}
    /\ UNCHANGED <<variant, galleryData, galleryLoading, galleryError, images,
                   intervalMs, index, paused, timerRef, pointerOver>>
    /\ UNCHANGED saleVars

\* An observation of the navigation begins (no variable of the program
\* changes).
BeginRun ==
    /\ mounted
    /\ navRun = {}
    /\ navRun' = RunFrom(index, FALSE)
    /\ UNCHANGED <<variant, mounted, galleryData, galleryLoading, galleryError,
                   images, intervalMs, index, paused, timers, timerRef,
                   hasCleanup, pointerOver, trail, lastTick>>
    /\ UNCHANGED saleVars

\* The first result of the gallery query.
FirstGalleryResult == galleryLoading /\ GalleryResult

NextCarousel ==
    \/ Tick
    \/ ClickNext
    \/ ClickPrev
    \/ ClickDot
    \/ MouseEnter
    \/ MouseLeave
    \/ GalleryResult
    \/ ImagesProp
    \/ IntervalProp
    \/ UnmountCarousel

-----------------------------------------------------------------------------
(* ProductSale: JavaScript values *)

\* null (of string | null). An optional value (T | undefined | null) is the
\* set {} or {v}.
Null == "<null>"

\* a ?? b ?? ... : the first operand that is neither undefined nor null.
RECURSIVE Coalesce(_)
Coalesce(opts) ==
    IF Len(opts) = 0 THEN {}
    ELSE IF Head(opts) # {} THEN Head(opts)
    ELSE Coalesce(Tail(opts))

TheValue(opt) == CHOOSE v \in opt : TRUE

Max(a, b) == IF a >= b THEN a ELSE b

DigitChars == <<"0", "1", "2", "3", "4", "5", "6", "7", "8", "9">>

IsDigit(c) == \E i \in 1..10 : DigitChars[i] = c

DigitVal(c) == (CHOOSE i \in 1..10 : DigitChars[i] = c) - 1

RECURSIVE DigitsValue(_)
DigitsValue(ds) ==
    IF Len(ds) = 0 THEN 0
    ELSE 10 * DigitsValue(SubSeq(ds, 1, Len(ds) - 1)) + DigitVal(ds[Len(ds)])

RECURSIVE SkipSpaces(_)
SkipSpaces(cs) ==
    IF Len(cs) > 0 /\ Head(cs) = " " THEN SkipSpaces(Tail(cs)) ELSE cs

\* parseInt(text, 10) of a text given as its characters: leading white space,
\* an optional sign, then the longest run of digits; what follows is ignored.
\* {} is NaN (no digit where the number should start).
ParseInt(text) ==
    LET t      == SkipSpaces(text)
        signed == Len(t) > 0 /\ Head(t) \in {"-", "+"}
        body   == IF signed THEN Tail(t) ELSE t
        run    == {k \in 0..Len(body) : \A i \in 1..k : IsDigit(body[i])}
        n      == CHOOSE k \in run : \A j \in run : j <= k
        v      == DigitsValue(SubSeq(body, 1, n))
    IN  IF n = 0 THEN {}
        ELSE IF signed /\ Head(t) = "-" THEN {-v} ELSE {v}

-----------------------------------------------------------------------------
(* ProductSale: mapping of catalog entries to display items *)

FALLBACK_IMG == "https://placehold.co/800x1066/efefef/444?text=Product"

DEF_COLORS ==
    << [name |-> "Navy", hex |-> "#1f2937"],
       [name |-> "Black", hex |-> "#111827"],
       [name |-> "White", hex |-> "#F9FAFB"],
       [name |-> "Grey", hex |-> "#6b7280"] >>

DEF_SIZES == <<"S", "M", "L", "XL", "XXL">>

PageSize == 8

\* image ?? thumbnail ?? (images && images[0]) ?? (media && media[0]?.original_url)
getProductImage(p) ==
    Coalesce(<< p.image,
                p.thumbnail,
                IF p.images # {} /\ Len(TheValue(p.images)) > 0
                    THEN {TheValue(p.images)[1]} ELSE {},
                IF p.media # {} /\ Len(TheValue(p.media)) > 0
                    THEN TheValue(p.media)[1] ELSE {} >>)

\* slug ?? String(id ?? "")
getProductSlug(p) == TheValue(Coalesce(<<p.slug, p.id, {""}>>))

\* name ?? title ?? "Product"
getProductName(p) == TheValue(Coalesce(<<p.name, p.title, {"Product"}>>))

\* A field the Product type declares a number can arrive from JSON as a
\* numeric string. The string of n is written NumericString(n): an integer
\* above every number a record of the model carries.
StringBase == 1000
NumericString(n) == StringBase + n

\* typeof v === "number"
IsNumber(v) == v < StringBase

\* getPrices with a fault: the original price is kept without typeof.
getPricesUntyped(p) ==
    LET price == TheValue(Coalesce(<<p.price, p.selling_price, p.final_price,
                                     p.base_price, {0}>>))
        was   == Coalesce(<<p.compare_at_price, p.original_price,
                            p.normal_price, p.was>>)
        safeWas == IF was # {} /\ TheValue(was) > price THEN was ELSE {}
    IN  [price |-> price, was |-> safeWas]

\* typeof was === "number" && was > price ? was : undefined
getPrices(p) ==
    LET price == TheValue(Coalesce(<<p.price, p.selling_price, p.final_price,
                                     p.base_price, {0}>>))
        was   == Coalesce(<<p.compare_at_price, p.original_price,
                            p.normal_price, p.was>>)
        safeWas == IF was # {} /\ IsNumber(TheValue(was)) /\ TheValue(was) > price
                   THEN was ELSE {}
    IN  [price |-> price, was |-> safeWas]

\* toSaleItem, plus ref: the identity of the object it creates (the evaluation
\* of the items useMemo and the position in the list).
toSaleItem(p, ref) ==
    LET pr   == getPrices(p)
        slug == getProductSlug(p)
    IN  [ref     |-> ref,
         id      |-> TheValue(Coalesce(<<p.id, {slug}>>)),
         name    |-> getProductName(p),
         price   |-> pr.price,
         was     |-> pr.was,
         href    |-> <<"/product/", slug>>,
         image   |-> Coalesce(<<getProductImage(p), {FALLBACK_IMG}>>),
         images  |-> {},
         desc    |-> p.description,
         rating  |-> p.rating,
         reviews |-> p.reviews_count,
         stock   |-> p.stock,
         sku     |-> p.sku,
         colors  |-> {DEF_COLORS},
         sizes   |-> {DEF_SIZES}]

\* (data?.data ?? []).slice(0, 8).map(toSaleItem)
SaleItems(d, gen) ==
    LET list == IF d = {} THEN <<>> ELSE TheValue(d)
        cut  == SubSeq(list, 1, IF Len(list) < PageSize THEN Len(list) ELSE PageSize)
    IN  [k \in 1..Len(cut) |-> toSaleItem(cut[k], <<gen, k>>)]

saleItems == SaleItems(data, itemsGen)

-----------------------------------------------------------------------------
(* ProductSale: inputs *)

\* The stock a catalog entry can carry: a positive count, zero, absent, negative.
StockKinds == <<{2}, {0}, {}, {-1}>>

\* Catalog entry k as the listing endpoint returns it. The entries differ in
\* which price fields they carry and in their stock.
CatalogEntry(k) ==
    [id |-> {<<"p", k>>}, slug |-> IF k % 2 = 0 THEN {<<"slug", k>>} ELSE {},
     name |-> IF k % 3 = 0 THEN {} ELSE {<<"name", k>>}, title |-> {<<"title", k>>},
     price |-> IF k % 2 = 1 THEN {10 * k} ELSE {}, selling_price |-> {},
     final_price |-> {}, base_price |-> IF k % 4 = 0 THEN {} ELSE {25},
     compare_at_price |-> IF k % 3 = 1 THEN {15 * k} ELSE {},
     original_price |-> {}, normal_price |-> {}, was |-> IF k % 2 = 0 THEN {20} ELSE {},
     stock |-> StockKinds[((k - 1) % 4) + 1],
     image |-> {}, thumbnail |-> IF k % 2 = 0 THEN {<<"thumb", k>>} ELSE {},
     images |-> {}, media |-> {},
     description |-> {}, rating |-> {}, reviews_count |-> {}, sku |-> {}]

\* The listings the endpoint can return: the first n entries of the catalog.
ProductLists == {[k \in 1..n |-> CatalogEntry(k)] : n \in 0..CatalogSize}

\* The results of useGetProductListQuery: isLoading is the first load (no data
\* yet, no error); an error may keep earlier data.
ProductResults ==
    {r \in [data : {{}} \cup {{l} : l \in ProductLists},
            isLoading : BOOLEAN, isError : BOOLEAN] :
        r.isLoading => (r.data = {} /\ ~r.isError)}

\* A one-entry listing whose entry has current price c and original price o
\* ({} = none).
PricedEntry(c, o) == [CatalogEntry(1) EXCEPT !.price = {c}, !.compare_at_price = o]

PricedLists ==
    {<<PricedEntry(c, o)>> : c \in 0..MaxPrice, o \in {{}} \cup {{w} : w \in 0..MaxPrice}}

\* A one-entry listing whose entry carries the given price fields: cur is
\* <<price, selling_price, final_price, base_price>> and orig is
\* <<compare_at_price, original_price, normal_price, was>> ({} = absent).
PriceFieldsEntry(cur, orig) ==
    [CatalogEntry(1) EXCEPT !.price = cur[1], !.selling_price = cur[2],
                            !.final_price = cur[3], !.base_price = cur[4],
                            !.compare_at_price = orig[1], !.original_price = orig[2],
                            !.normal_price = orig[3], !.was = orig[4]]

\* Each field absent or present with a value of its own; price can be 0, and
\* compare_at_price can be equal to, above or below a current price, or a
\* numeric string.
CurrentFields == {{}, {0}, {4}} \X {{}, {5}} \X {{}, {6}} \X {{}, {7}}
OriginalFields ==
    {{}, {4}, {6}, {NumericString(8)}} \X {{}, {8}} \X {{}, {2}} \X {{}, {9}}

PriceFieldsLists ==
    {<<PriceFieldsEntry(cur, orig)>> : cur \in CurrentFields, orig \in OriginalFields}

\* What can be typed into the quantity field, as characters.
QtyInputs ==
    {<<DigitChars[d + 1]>> : d \in 0..MaxQty}
    \cup {<<>>, <<"-", "2">>, <<"2", ".", "5">>, <<"1", "e", "3">>, <<"0", "2">>, <<" ", "1">>}

-----------------------------------------------------------------------------
(* ProductSale: derived values *)

\* Neither early return (isLoading, isError) is taken: the grid is rendered.
GridRendered == saleMounted /\ ~isLoading /\ ~isError

\* {active && (...)}: the quick-view modal is rendered.
ModalRendered == GridRendered /\ active # {}

ActiveItem == TheValue(active)

\* active.images ?? [active.image ?? FALLBACK_IMG]
GalleryOf(item) ==
    IF item.images # {} THEN TheValue(item.images)
    ELSE <<TheValue(Coalesce(<<item.image, {FALLBACK_IMG}>>))>>

\* DefaultColor with a fault: the second option instead of the first.
DefaultColorSecond(item) ==
    IF item.colors # {} /\ Len(TheValue(item.colors)) > 1
    THEN TheValue(item.colors)[2].name ELSE Null

\* active.colors?.[0]?.name ?? null
DefaultColor(item) ==
    IF item.colors # {} /\ Len(TheValue(item.colors)) > 0
    THEN TheValue(item.colors)[1].name ELSE Null

\* DefaultSize with a fault: the size is left unset although the item has sizes.
DefaultSizeUnset(item) == Null

\* active.sizes?.[0] ?? null
DefaultSize(item) ==
    IF item.sizes # {} /\ Len(TheValue(item.sizes)) > 0
    THEN TheValue(item.sizes)[1] ELSE Null

\* active.colors ?? DEF_COLORS, active.sizes ?? DEF_SIZES
ColorOptions(item) == TheValue(Coalesce(<<item.colors, {DEF_COLORS}>>))
SizeOptions(item) == TheValue(Coalesce(<<item.sizes, {DEF_SIZES}>>))

\* AddToCartDisabled with a fault: only `active.stock <= 0`, which is false for
\* an absent stock.
AddToCartDisabledKnownOnly(item) ==
    item.stock # {} /\ TheValue(item.stock) <= 0

\* disabled={!active.stock || active.stock <= 0}
AddToCartDisabled(item) ==
    \/ item.stock = {}
    \/ TheValue(item.stock) = 0
    \/ TheValue(item.stock) <= 0

\* CartAddDetail with a fault: the quantity of the detail is always 1.
CartAddDetailUnitQty(item, c, s, q) ==
    [f \in (DOMAIN item \ {"ref"}) \cup {"color", "size", "qty"} |->
        IF f = "color" THEN c
        ELSE IF f = "size" THEN s
        ELSE IF f = "qty" THEN 1
        ELSE item[f]]

\* detail: { ...active, color, size, qty }
CartAddDetail(item, c, s, q) ==
    [f \in (DOMAIN item \ {"ref"}) \cup {"color", "size", "qty"} |->
        IF f = "color" THEN c
        ELSE IF f = "size" THEN s
        ELSE IF f = "qty" THEN q
        ELSE item[f]]

\* QtyDec with a fault: no floor at 1.
QtyDecNoFloor(q) == q - 1

\* setQty((q) => Math.max(1, q - 1)), setQty((q) => q + 1)
QtyDec(q) == Max(1, q - 1)
QtyInc(q) == q + 1

\* const val = parseInt(e.target.value, 10); Number.isNaN(val) ? 1 : Math.max(1, val)
ParsedInput == [text \in QtyInputs |-> ParseInt(text)]

QtyFromInput(text) ==
    LET val == ParsedInput[text]
    IN  IF val = {} THEN 1 ELSE Max(1, TheValue(val))

\* Math.round(num / den) for den > 0: the nearest integer, halves upwards.
MathRound(num, den) == (2 * num + den) \div (2 * den)

\* Math.max(0, Math.round(((was - price) / was) * 100))
DiscountPct(was, price) == Max(0, MathRound((was - price) * 100, was))

\* CardBadge with a fault: the percentage is cut off instead of rounded.
CardBadgeTruncated(p) ==
    IF p.was # {} /\ TheValue(p.was) > p.price
    THEN {Max(0, ((TheValue(p.was) - p.price) * 100) \div TheValue(p.was))}
    ELSE {}

\* The badge of a grid card: hasDiscount && -{disc}% ({} = no badge).
CardBadge(p) ==
    LET hasDiscount == p.was # {} /\ TheValue(p.was) > p.price
        disc == IF hasDiscount THEN DiscountPct(TheValue(p.was), p.price) ELSE 0
    IN  IF hasDiscount THEN {disc} ELSE {}

\* The badge of the modal header: typeof active.was === "number" &&
\* active.was > active.price && -{...}% ({} = no badge).
HeaderBadge(item) ==
    IF item.was # {} /\ TheValue(item.was) > item.price
    THEN {Max(0, MathRound((TheValue(item.was) - item.price) * 100, TheValue(item.was)))}
    ELSE {}

\* () => (active ? active.price * qty : 0)
TotalOf(a, q) == IF a # {} THEN TheValue(a).price * q ELSE 0

\* MemoTotal with a fault: the dependency list is [active] alone.
MemoTotalActiveOnly(a, q, a2, q2, cached) ==
    IF a2 # a THEN TotalOf(a2, q2) ELSE cached

\* useMemo(..., [active, qty]) over a step that takes (active, qty) from
\* (a, q) to (a2, q2): the renders of the step recompute the value when a
\* dependency differs from the one of the last computation, and keep the
\* cached value otherwise.
MemoTotal(a, q, a2, q2, cached) ==
    IF a2 # a \/ q2 # q THEN TotalOf(a2, q2) ELSE cached

\* What the renders of a ProductSale step leave in the memo.
RenderTotal == total' = MemoTotal(active, qty, active', qty', total)

-----------------------------------------------------------------------------
(* ProductSale: the effect on [active] *)

\* After setActive(a): nothing when a is the object already held; otherwise
\* the render, the previous run's cleanup (overflow = "") and the effect body.
SetActive(a) ==
    IF a = active
    THEN UNCHANGED <<active, activeImg, color, size, qty, overflow, focusTimers, focus>>
    ELSE /\ active' = a
         /\ IF a # {}
            THEN /\ overflow' = "hidden"
                 /\ activeImg' = 0
                 /\ color' = DefaultColor(TheValue(a))
                 /\ size' = DefaultSize(TheValue(a))
                 /\ qty' = 1
                 /\ focusTimers' = focusTimers + 1
                 /\ focus' = focus
            ELSE /\ overflow' = ""
                 \* the focused close button leaves the document with the modal
                 /\ focus' = "page"
                 /\ UNCHANGED <<activeImg, color, size, qty, focusTimers>>

-----------------------------------------------------------------------------
(* ProductSale: initial state *)

InitSale ==
    /\ saleMounted = TRUE
    /\ data = {}
    /\ isLoading = TRUE
    /\ isError = FALSE
    /\ itemsGen = 0
    /\ active = {}
    /\ activeImg = 0
    /\ color = Null
    /\ size = Null
    /\ qty = 1
    /\ total = 0
    /\ overflow = ""
    /\ focusTimers = 0
    /\ focus = "page"
    /\ emitted = <<>>
    /\ alerted = FALSE
    /\ lastOpen = {}
    /\ lastKey = {}

-----------------------------------------------------------------------------
(* ProductSale: operations *)

\* The product query delivers another result; another list rebuilds items.
ProductResult ==
    /\ saleMounted
    /\ \E r \in ProductResults :
         /\ <<r.data, r.isLoading, r.isError>> # <<data, isLoading, isError>>
         /\ r.data # data => itemsGen < MaxRefetch
         /\ data' = r.data
         /\ isLoading' = r.isLoading
         /\ isError' = r.isError
         /\ itemsGen' = (IF r.data # data THEN itemsGen + 1 ELSE itemsGen)
         \* an early return removes the modal, and the focused button with it
         /\ focus' = (IF r.isLoading \/ r.isError THEN "page" ELSE focus)
    /\ emitted' = <<>>
    /\ alerted' = FALSE
    /\ lastOpen' = {}
    /\ lastKey' = {}
    /\ UNCHANGED <<saleMounted, active, activeImg, color, size, qty, overflow,
                   focusTimers>>
    /\ RenderTotal
    /\ UNCHANGED carouselVars

-----------------------------------------------------------------------------
(* ProductSale: the keydown listener and the focus order of the panel *)

ThumbNames == <<"thumb0", "thumb1", "thumb2">>

Elements(seq) == {seq[k] : k \in 1..Len(seq)}

\* panelRef.current.querySelectorAll('a, button, input, select, textarea,
\* [tabindex]:not([tabindex="-1"])'), in document order: the thumbnails, the
\* close button, the color and size buttons, the quantity controls, Add to
\* Cart and Buy Now. The <summary> of the details block does not match.
PanelFocusables(item) ==
    SubSeq(ThumbNames, 1, Len(GalleryOf(item)))
    \o <<"closeBtn">>
    \o [k \in 1..Len(ColorOptions(item)) |-> ColorOptions(item)[k].name]
    \o SizeOptions(item)
    \o <<"qtyDec", "qtyInput", "qtyInc", "addToCart", "buyNow">>

\* The browser's own tab order inside the panel: the same elements without a
\* disabled Add to Cart, then the <summary>.
PanelTabbables(item) ==
    SelectSeq(PanelFocusables(item),
              LAMBDA e : ~(e = "addToCart" /\ AddToCartDisabled(item)))
    \o <<"summary">>

\* The default action of Tab / Shift+Tab from element f, with tab order T of
\* the panel (empty when no modal is rendered): the neighbour of f in T; past
\* either end of T, or from outside it, an element outside the panel or the
\* nearest end of T.
NativeTab(f, shift, T) ==
    IF \E k \in 1..Len(T) : T[k] = f
    THEN LET k == CHOOSE j \in 1..Len(T) : T[j] = f
         IN  IF shift
             THEN (IF k > 1 THEN {T[k - 1]} ELSE {"page"})
             ELSE (IF k < Len(T) THEN {T[k + 1]} ELSE {"page"})
    ELSE IF Len(T) = 0 THEN {"page"}
    ELSE IF shift THEN {"page", T[Len(T)]}
    ELSE {"page", T[1]}

\* onKey, the Tab branch: where the focus can be after the key was handled.
TabTargets(shift) ==
    IF ModalRendered
    THEN LET F == PanelFocusables(ActiveItem)
             T == PanelTabbables(ActiveItem)
         IN  IF Len(F) = 0 THEN NativeTab(focus, shift, T)
             ELSE IF shift /\ focus = F[1] THEN {F[Len(F)]}
             ELSE IF ~shift /\ focus = F[Len(F)] THEN {F[1]}
             ELSE NativeTab(focus, shift, T)
    ELSE NativeTab(focus, shift, <<>>)

\* OnKeyCloses with a fault: the legacy name of the key.
OnKeyClosesLegacy(key) == key = "Esc"

\* if (e.key === "Escape") setActive(null)
OnKeyCloses(key) == key = "Escape"

\* keydown on window: onKey.
KeyDown(key, shift) ==
    /\ saleMounted
    /\ lastKey' = {[key |-> key, shift |-> shift, from |-> focus,
                    wasOpen |-> active # {}]}
    /\ IF OnKeyCloses(key)
       THEN SetActive({})
       ELSE /\ UNCHANGED <<active, activeImg, color, size, qty, overflow, focusTimers>>
            /\ IF key = "Tab"
               THEN focus' \in TabTargets(shift)
               ELSE focus' = focus
    /\ emitted' = <<>>
    /\ alerted' = FALSE
    /\ lastOpen' = {}
    /\ UNCHANGED <<saleMounted, data, isLoading, isError, itemsGen>>
    /\ RenderTotal
    /\ UNCHANGED carouselVars

-----------------------------------------------------------------------------
(* ProductSale: pointer operations *)

\* onClick of grid card k: setActive(p).
ClickCard ==
    /\ GridRendered
    /\ focusTimers < MaxFocusTimers
    /\ \E k \in 1..Len(saleItems) :
         /\ SetActive({saleItems[k]})
         /\ lastOpen' = {[wasOpen |-> active # {},
                          same    |-> active = {saleItems[k]},
                          dirty   |-> /\ active # {}
                                      /\ color # DefaultColor(saleItems[k])
                                      /\ size # DefaultSize(saleItems[k])
                                      /\ qty # 1]}
    /\ lastKey' = {}
    /\ emitted' = <<>>
    /\ alerted' = FALSE
    /\ UNCHANGED <<saleMounted, data, isLoading, isError, itemsGen>>
    /\ RenderTotal
    /\ UNCHANGED carouselVars

\* Close: setActive(null), from the close button or the overlay.
CloseModal ==
    /\ SetActive({})
    /\ emitted' = <<>>
    /\ alerted' = FALSE
    /\ lastOpen' = {}
    /\ lastKey' = {}
    /\ UNCHANGED <<saleMounted, data, isLoading, isError, itemsGen>>
    /\ RenderTotal
    /\ UNCHANGED carouselVars

ClickClose == ModalRendered /\ CloseModal

ClickOverlay == ModalRendered /\ CloseModal

\* keydown on window with key "Escape": setActive(null).
KeyEscape == KeyDown("Escape", FALSE)

\* keydown on window with key "Tab", without and with Shift.
KeyTab == KeyDown("Tab", FALSE)

KeyShiftTab == KeyDown("Tab", TRUE)

\* mousedown on an element of the panel gives it the focus; on a part of the
\* panel that cannot take the focus, the focus leaves every element.
PointerFocus ==
    /\ ModalRendered
    /\ \E e \in Elements(PanelTabbables(ActiveItem)) \cup {"page"} :
         /\ e # focus
         /\ focus' = e
    /\ emitted' = <<>>
    /\ alerted' = FALSE
    /\ lastOpen' = {}
    /\ lastKey' = {}
    /\ UNCHANGED <<saleMounted, data, isLoading, isError, itemsGen, active,
                   activeImg, color, size, qty, overflow, focusTimers>>
    /\ RenderTotal
    /\ UNCHANGED carouselVars

\* The product query delivers a listing of PricedLists.
PricedResult ==
    /\ saleMounted
    /\ \E l \in PricedLists :
         /\ {l} # data
         /\ itemsGen < MaxRefetch
         /\ data' = {l}
         /\ isLoading' = FALSE
         /\ isError' = FALSE
         /\ itemsGen' = itemsGen + 1
    /\ emitted' = <<>>
    /\ alerted' = FALSE
    /\ lastOpen' = {}
    /\ lastKey' = {}
    /\ UNCHANGED <<saleMounted, active, activeImg, color, size, qty, overflow,
                   focusTimers, focus>>
    /\ RenderTotal
    /\ UNCHANGED carouselVars

\* The first result of the query is a listing whose entry carries some of the
\* eight price fields; the items useMemo maps it through toSaleItem.
PriceFieldsResult ==
    /\ saleMounted
    /\ data = {}
    /\ \E l \in PriceFieldsLists :
         /\ itemsGen < MaxRefetch
         /\ data' = {l}
         /\ isLoading' = FALSE
         /\ isError' = FALSE
         /\ itemsGen' = itemsGen + 1
    /\ emitted' = <<>>
    /\ alerted' = FALSE
    /\ lastOpen' = {}
    /\ lastKey' = {}
    /\ UNCHANGED <<saleMounted, active, activeImg, color, size, qty, overflow,
                   focusTimers, focus>>
    /\ RenderTotal
    /\ UNCHANGED carouselVars

\* onClick of thumbnail i: setActiveImg(i).
ClickThumb ==
    /\ ModalRendered
    /\ \E i \in 0..(Len(GalleryOf(ActiveItem)) - 1) : activeImg' = i
    /\ emitted' = <<>>
    /\ alerted' = FALSE
    /\ lastOpen' = {}
    /\ lastKey' = {}
    /\ UNCHANGED <<saleMounted, data, isLoading, isError, itemsGen, active, color,
                   size, qty, overflow, focusTimers, focus>>
    /\ RenderTotal
    /\ UNCHANGED carouselVars

\* onClick of a color button: setColor(c.name).
ClickColor ==
    /\ ModalRendered
    /\ \E k \in 1..Len(ColorOptions(ActiveItem)) :
         color' = ColorOptions(ActiveItem)[k].name
    /\ emitted' = <<>>
    /\ alerted' = FALSE
    /\ lastOpen' = {}
    /\ lastKey' = {}
    /\ UNCHANGED <<saleMounted, data, isLoading, isError, itemsGen, active,
                   activeImg, size, qty, overflow, focusTimers, focus>>
    /\ RenderTotal
    /\ UNCHANGED carouselVars

\* onClick of a size button: setSize(s).
ClickSize ==
    /\ ModalRendered
    /\ \E k \in 1..Len(SizeOptions(ActiveItem)) : size' = SizeOptions(ActiveItem)[k]
    /\ emitted' = <<>>
    /\ alerted' = FALSE
    /\ lastOpen' = {}
    /\ lastKey' = {}
    /\ UNCHANGED <<saleMounted, data, isLoading, isError, itemsGen, active,
                   activeImg, color, qty, overflow, focusTimers, focus>>
    /\ RenderTotal
    /\ UNCHANGED carouselVars

QtyFrame ==
    /\ emitted' = <<>>
    /\ alerted' = FALSE
    /\ lastOpen' = {}
    /\ lastKey' = {}
    /\ UNCHANGED <<saleMounted, data, isLoading, isError, itemsGen, active,
                   activeImg, color, size, overflow, focusTimers, focus>>
    /\ RenderTotal
    /\ UNCHANGED carouselVars

\* onClick of "Decrease quantity".
QtyDecrease ==
    /\ ModalRendered
    /\ qty' = QtyDec(qty)
    /\ QtyFrame

\* onClick of "Increase quantity".
QtyIncrease ==
    /\ ModalRendered
    /\ qty < MaxQty
    /\ qty' = QtyInc(qty)
    /\ QtyFrame

\* onChange of the quantity field with the text typed.
QtyEntry(text) ==
    /\ ModalRendered
    /\ qty' = QtyFromInput(text)
    /\ QtyFrame

QtyChange == \E text \in QtyInputs : QtyEntry(text)

\* onClick of "Add to Cart" (a disabled button receives no click).
AddToCart ==
    /\ ModalRendered
    /\ ~AddToCartDisabled(ActiveItem)
    /\ IF color = Null \/ color = "" \/ size = Null \/ size = ""
       THEN /\ alerted' = TRUE
            /\ emitted' = <<>>
            /\ UNCHANGED <<active, activeImg, color, size, qty, overflow,
                           focusTimers, focus>>
       ELSE /\ alerted' = FALSE
            /\ emitted' = <<CartAddDetail(ActiveItem, color, size, qty)>>
            /\ SetActive({})
    /\ lastOpen' = {}
    /\ lastKey' = {}
    /\ UNCHANGED <<saleMounted, data, isLoading, isError, itemsGen>>
    /\ RenderTotal
    /\ UNCHANGED carouselVars

\* FocusTimer with a fault: closeBtnRef is attached to no element, so the
\* callback focuses nothing.
FocusTimerNoRef ==
    /\ focusTimers > 0
    /\ focusTimers' = focusTimers - 1
    /\ focus' = focus
    /\ emitted' = <<>>
    /\ alerted' = FALSE
    /\ lastOpen' = {}
    /\ lastKey' = {}
    /\ UNCHANGED <<saleMounted, data, isLoading, isError, itemsGen, active,
                   activeImg, color, size, qty, overflow>>
    /\ RenderTotal
    /\ UNCHANGED carouselVars

\* A deferred callback runs: closeBtnRef.current?.focus().
FocusTimer ==
    /\ focusTimers > 0
    /\ focusTimers' = focusTimers - 1
    /\ focus' = (IF ModalRendered THEN "closeBtn" ELSE focus)
    /\ emitted' = <<>>
    /\ alerted' = FALSE
    /\ lastOpen' = {}
    /\ lastKey' = {}
    /\ UNCHANGED <<saleMounted, data, isLoading, isError, itemsGen, active,
                   activeImg, color, size, qty, overflow>>
    /\ RenderTotal
    /\ UNCHANGED carouselVars

\* ProductSale is unmounted: the effect's cleanup restores the overflow and
\* the keydown listener is removed.
UnmountSale ==
    /\ saleMounted
    /\ saleMounted' = FALSE
    /\ overflow' = ""
    /\ focus' = "page"
    /\ emitted' = <<>>
    /\ alerted' = FALSE
    /\ lastOpen' = {}
    /\ lastKey' = {}
    /\ UNCHANGED <<data, isLoading, isError, itemsGen, active, activeImg, color,
                   size, qty, focusTimers>>
    /\ RenderTotal
    /\ UNCHANGED carouselVars

NextSale ==
    \/ ProductResult
    \/ ClickCard
    \/ ClickClose
    \/ ClickOverlay
    \/ KeyEscape
    \/ ClickThumb
    \/ ClickColor
    \/ ClickSize
    \/ QtyDecrease
    \/ QtyIncrease
    \/ QtyChange
    \/ AddToCart
    \/ FocusTimer
    \/ UnmountSale

-----------------------------------------------------------------------------
Init == InitCarousel /\ InitSale

\* ProductSale under the keyboard: opening, every way of closing, the keys and
\* the focus, with the selection controls left alone.
NextKeys ==
    \/ ProductResult
    \/ ClickCard
    \/ ClickClose
    \/ ClickOverlay
    \/ KeyEscape
    \/ KeyTab
    \/ KeyShiftTab
    \/ PointerFocus
    \/ AddToCart
    \/ FocusTimer
    \/ UnmountSale

\* ProductSale over listings of every price pair: the badges of the grid and
\* of the modal header.
NextBadge ==
    \/ PricedResult
    \/ ClickCard
    \/ ClickClose
    \/ FocusTimer

\* The steps that write the quantity (opening resets it, the three quantity
\* controls set it) and the ones that show or remove the modal around them.
NextQty ==
    \/ ProductResult
    \/ ClickCard
    \/ ClickClose
    \/ QtyDecrease
    \/ QtyIncrease
    \/ QtyChange
    \/ AddToCart
    \/ FocusTimer
    \/ UnmountSale

\* Navigation of a carousel whose items stay as first delivered.
NextInterleave ==
    \/ FirstGalleryResult
    \/ BeginRun
    \/ Tick
    \/ ClickNext
    \/ ClickPrev
    \/ ClickDot
    \/ MouseEnter
    \/ MouseLeave

\* The first result of the product query.
FirstProductResult == isLoading /\ ProductResult

\* Both widgets on one page: the carousel's navigation and hover next to the
\* modal being opened and closed (a gallery carousel stays on its loading
\* panel).
NextPage ==
    \/ Tick
    \/ ClickNext
    \/ ClickPrev
    \/ ClickDot
    \/ MouseEnter
    \/ MouseLeave
    \/ FirstProductResult
    \/ ClickCard
    \/ ClickClose
    \/ FocusTimer

\* The modal's selection controls, with the steps that open, close, submit
\* and re-list around them.
NextSelect ==
    \/ ProductResult
    \/ ClickCard
    \/ ClickClose
    \/ ClickThumb
    \/ ClickColor
    \/ ClickSize
    \/ AddToCart
    \/ FocusTimer
    \/ UnmountSale

NextPrices ==
    \/ PriceFieldsResult
    \/ ClickCard
    \/ ClickClose
    \/ FocusTimer

Next == NextCarousel \/ NextSale \/ NextKeys \/ NextBadge \/ NextQty \/ NextPrices
            \/ NextInterleave \/ NextSelect \/ NextPage

Spec == Init /\ [][Next]_vars

\* The carousel alone, beside a ProductSale nobody touches.
SpecCarousel == Init /\ [][NextCarousel]_vars

SpecInterleave == Init /\ [][NextInterleave]_vars

\* ProductSale alone, beside a gallery carousel nobody touches.
InitSaleAlone == Init /\ variant = "gallery"

SpecSale == InitSaleAlone /\ [][NextSale]_vars

SpecKeys == InitSaleAlone /\ [][NextKeys]_vars

SpecBadge == InitSaleAlone /\ [][NextBadge]_vars

SpecQty == InitSaleAlone /\ [][NextQty]_vars

SpecPrices == InitSaleAlone /\ [][NextPrices]_vars

SpecSelect == InitSaleAlone /\ [][NextSelect]_vars

SpecPage == Init /\ [][NextPage]_vars

\* The event loop runs every timer callback that is due.
FairSpecKeys == SpecKeys /\ WF_vars(FocusTimer)

-----------------------------------------------------------------------------
(* Claims about RunningCarousel *)

\* C1: in both variants the current slide index is always an integer of
\* [0, N), N the current item count (read for N >= 1: with no item the gallery
\* variant shows its placeholder and the range is empty).
C1_IndexInRange == (mounted /\ N >= 1) => index \in 0..(N - 1)

\* C2: for N > 1 and an index i of [0, N), next then prev, and prev then next,
\* with no event in between, return the index to i; next from N-1 gives 0 and
\* prev from 0 gives N-1.
C2_NextPrevInverse ==
    /\ (/\ Len(trail) = 2
        /\ N > 1
        /\ trail[1].pre \in 0..(N - 1)
        /\ trail[1].dir = -trail[2].dir) => index = trail[1].pre
    /\ (/\ Len(trail) >= 1
        /\ N > 1
        /\ trail[Len(trail)].pre \in 0..(N - 1))
       => LET last == trail[Len(trail)]
          IN  /\ (last.dir = 1 /\ last.pre = N - 1) => index = 0
              /\ (last.dir = -1 /\ last.pre = 0) => index = N - 1
              /\ (last.dir = 1 /\ last.pre < N - 1) => index = last.pre + 1
              /\ (last.dir = -1 /\ last.pre > 0) => index = last.pre - 1

\* C2 witness: from the last slide, next wrapped to 0 and prev wrapped back.
C2_Witness ==
    /\ Len(trail) = 2
    /\ N > 1
    /\ trail[1].dir = 1
    /\ trail[2].dir = -1
    /\ trail[1].pre = N - 1
    /\ trail[2].pre = 0
    /\ index = N - 1

\* C3: whenever N <= 1, no previous/next/dot control is available and no
\* autoplay timer is armed (so the timer callback cannot fire).
C3_SingleItemIsStatic ==
    (mounted /\ N <= 1) => (~ArrowsShown /\ ~DotsShown /\ timers = {})

\* C4: whenever the pointer is not over the (rendered) widget and N > 1,
\* autoplay is running: the widget is not paused and its timer is armed.
C4_ResumesWhenNotHovered ==
    (TrackRendered /\ ~pointerOver /\ N > 1) => (~paused /\ timers # {})

\* C5: whenever the length of the item sequence changes, the index is reset
\* to 0 in the same step.
C5_ResetOnLengthChange == [][N' # N => index' = 0]_vars

-----------------------------------------------------------------------------
(* Claims about the quick-view modal of ProductSale *)

\* The selection the modal shows is the default selection of the active item:
\* image 0, its first color option, its first size option, quantity 1.
SelectionIsDefault ==
    /\ active # {}
    /\ activeImg = 0
    /\ color = TheValue(ActiveItem.colors)[1].name
    /\ size = TheValue(ActiveItem.sizes)[1]
    /\ qty = 1

\* C6: a click on a grid card always leaves the modal open on that item with
\* the default selection, whatever was open and selected before, also when
\* the clicked item is the one already open.
C6_OpenAlwaysResets == lastOpen # {} => SelectionIsDefault

\* C6 amended: a click on a grid card leaves the modal open on that item with
\* the default selection unless the clicked item is the very object already
\* open; in that case the click changes nothing.
C6_OpenOtherResets ==
    /\ [](\A o \in lastOpen : ~o.same => SelectionIsDefault)
    /\ [][(lastOpen' # {} /\ TheValue(lastOpen').same)
            => UNCHANGED <<active, activeImg, color, size, qty, overflow>>]_vars

\* C6 witness: a card was clicked while another item was open with another
\* color, another size and another quantity, and the selection is the default.
C6_Witness ==
    /\ \E o \in lastOpen : o.wasOpen /\ o.dirty /\ ~o.same
    /\ SelectionIsDefault

\* C7: the quantity is always an integer >= 1; decrement floors at 1,
\* increment adds 1, an entry that parses to v gives max(1, v), an entry that
\* does not parse gives 1; decrement then increment from q > 1 returns to q.
C7_QuantityRules ==
    /\ [](qty \in Nat /\ qty >= 1)
    /\ [][(ModalRendered /\ QtyFrame) =>
            /\ QtyDecrease => qty' = (IF qty = 1 THEN 1 ELSE qty - 1)
            /\ (QtyDecrease /\ qty > 1) => QtyInc(qty') = qty
            /\ QtyIncrease => qty' = qty + 1
            /\ \A text \in QtyInputs :
                  QtyEntry(text) =>
                      qty' = (IF ParsedInput[text] = {} THEN 1
                              ELSE IF TheValue(ParsedInput[text]) < 1 THEN 1
                              ELSE TheValue(ParsedInput[text]))]_vars

\* C7 witness: the modal shows quantity 5 (from which decrement, increment
\* and every entry are possible).
C7_Witness == ModalRendered /\ qty = 5

\* The detail of a notification carries item, color c, size s and quantity q.
DetailCarries(d, item, c, s, q) ==
    /\ DOMAIN d = (DOMAIN item \ {"ref"}) \cup {"color", "size", "qty"}
    /\ \A f \in DOMAIN item \ {"ref"} : d[f] = item[f]
    /\ d.color = c
    /\ d.size = s
    /\ d.qty = q

\* C9: a click on Add to Cart with a color and a size selected dispatches
\* exactly one notification, carrying the active item and the color, size and
\* quantity selected at that moment, and closes the modal; no other step
\* dispatches a notification.
C9_OneNotificationPerConfirm ==
    [][/\ (AddToCart /\ color \notin {Null, ""} /\ size \notin {Null, ""})
            => /\ Len(emitted') = 1
               /\ DetailCarries(emitted'[1], ActiveItem, color, size, qty)
               /\ active' = {}
       /\ ~AddToCart => emitted' = <<>>]_vars

\* C9 witness: a notification with a non-default color, size and quantity
\* has just been dispatched and the modal is closed.
C9_Witness ==
    /\ Len(emitted) = 1
    /\ emitted[1].color = "White"
    /\ emitted[1].size = "XL"
    /\ emitted[1].qty = 3
    /\ active = {}

\* C10: every dispatched notification is for an item whose stock is a known
\* number greater than 0.
C10_EmittedOnlyInStock ==
    \A i \in 1..Len(emitted) :
        emitted[i].stock # {} /\ TheValue(emitted[i].stock) > 0

\* C10 witness: a notification was dispatched for an in-stock item after a
\* listing that also holds sold-out, negative-stock and unknown-stock items.
C10_Witness ==
    /\ Len(emitted) = 1
    /\ TheValue(emitted[1].stock) = 2
    /\ \E k \in 1..Len(saleItems) : saleItems[k].stock = {}
    /\ \E k \in 1..Len(saleItems) : saleItems[k].stock = {0}
    /\ \E k \in 1..Len(saleItems) : saleItems[k].stock = {-1}

-----------------------------------------------------------------------------
(* Claims about the keyboard, the scroll lock and the focus of the modal *)

\* C11: Escape pressed while an item is active leaves no item active, wherever
\* the focus is; Escape pressed while no item is active changes neither the
\* active item, nor the selection, nor the scroll lock, and dispatches nothing.
C11_EscapeCloses ==
    [][\A k \in lastKey' :
          k.key = "Escape" =>
              /\ active' = {}
              /\ active = {} =>
                    /\ UNCHANGED <<active, activeImg, color, size, qty, overflow>>
                    /\ emitted' = <<>>]_vars

\* C11 witness: Escape was pressed with the focus on the quantity field of an
\* open modal, and the modal is closed.
C11_Witness ==
    /\ \E k \in lastKey : k.key = "Escape" /\ k.wasOpen /\ k.from = "qtyInput"
    /\ active = {}
    /\ overflow = ""

\* C12: the document scroll lock is on exactly while the quick-view modal is
\* displayed, also after the listing turned to loading or error with an item
\* active, and after every way of closing and after unmount.
C12_ScrollLockIffOpen == (overflow = "hidden") <=> ModalRendered


\* C13: while the modal is displayed, after every Tab or Shift+Tab press,
\* from whatever position the focus had, the focus is on an interactive
\* element of the modal; Shift+Tab on the first element moves to the last and
\* Tab on the last moves to the first.
C13_FocusTrapped ==
    [][\A k \in lastKey' :
          (k.key = "Tab" /\ ModalRendered) =>
              LET F == PanelFocusables(ActiveItem)
              IN  /\ focus' \in Elements(PanelTabbables(ActiveItem))
                  /\ (k.shift /\ focus = F[1]) => focus' = F[Len(F)]
                  /\ (~k.shift /\ focus = F[Len(F)]) => focus' = F[1]]_vars


-----------------------------------------------------------------------------
(* Claims about what closing the modal leaves behind *)

\* C14: once the modal is closed (no item active), by whatever path, the
\* selection state holds nothing of the closed item: image index, color, size
\* and quantity are those of the initial state.
C14_CloseDiscardsSelection ==
    active = {} => (activeImg = 0 /\ color = Null /\ size = Null /\ qty = 1)


-----------------------------------------------------------------------------
(* Claims about the discount badge *)

\* d is num / den (den > 0) rounded to the nearest integer, halves upwards.
IsRoundOf(d, num, den) ==
    /\ (2 * d - 1) * den <= 2 * num
    /\ 2 * num < (2 * d + 1) * den

\* C15: for every entry with current price c and original price o, the grid
\* card shows a badge iff o > c, the percentage shown is
\* round((o - c) / o * 100), not below 0, and the header of the modal opened
\* on an item shows the badge, with the same percentage, iff its card does.
C15_DiscountBadge ==
    /\ GridRendered =>
          \A k \in 1..Len(saleItems) :
              LET c == TheValue(TheValue(data)[k].price)
                  o == TheValue(data)[k].compare_at_price
                  badge == CardBadge(saleItems[k])
              IN  /\ badge # {} <=> (o # {} /\ TheValue(o) > c)
                  /\ \A d \in badge :
                        d >= 0 /\ IsRoundOf(d, (TheValue(o) - c) * 100, TheValue(o))
    /\ ModalRendered => HeaderBadge(ActiveItem) = CardBadge(ActiveItem)

\* C15 witness: the modal is open on the entry with current price 7 and
\* original price 8 (12.5 %), and the card and the header both show 13.
C15_Witness ==
    /\ ModalRendered
    /\ Len(saleItems) = 1
    /\ ActiveItem = saleItems[1]
    /\ ActiveItem.price = 7
    /\ ActiveItem.was = {8}
    /\ CardBadge(saleItems[1]) = {13}
    /\ HeaderBadge(ActiveItem) = {13}


-----------------------------------------------------------------------------
(* Claims about the deferred operations *)

\* C16: no deferred operation outlives its owner: an unmounted carousel has no
\* live interval timer, and once the modal is closed or ProductSale is
\* unmounted no focus deferral is pending (it was cancelled).
C16_NoDanglingTimers ==
    /\ ~mounted => timers = {}
    /\ (active = {} \/ ~saleMounted) => focusTimers = 0


-----------------------------------------------------------------------------
(* Claims about the placeholder, the timer ticks and the timers of the carousel *)

\* The gallery's source data is pending, or has failed, or yields no usable image.
GalleryPlaceholderCase ==
    /\ variant = "gallery"
    /\ mounted
    /\ (galleryLoading \/ galleryError \/ N = 0)

\* C17: in the gallery carousel, while the source data is pending, has failed
\* or yields no usable image, no previous / next / dot control is available,
\* and no user input (arrow, dot, pointer entering or leaving) changes the
\* index or the paused flag.
C17_PlaceholderIsInert ==
    /\ [](GalleryPlaceholderCase => (~ArrowsShown /\ ~DotsShown))
    /\ [][(GalleryPlaceholderCase
           /\ (ClickNext \/ ClickPrev \/ ClickDot \/ MouseEnter \/ MouseLeave))
          => (index' = index /\ paused' = paused)]_vars

\* C17 witness: the pointer has entered the widget while the failure
\* placeholder was shown over a gallery of several images, and the carousel
\* is not paused.
C17_Witness ==
    /\ GalleryPlaceholderCase
    /\ galleryError
    /\ N > 1
    /\ pointerOver
    /\ ~paused


\* C18: each firing of the autoplay timer changes the index from i to
\* (i + 1) mod N, N the current item count, and leaves the paused flag and the
\* items alone; the timer fires only while paused is false.
C18_TickAdvances ==
    [][lastTick' # {} =>
          /\ N > 0
          /\ index' = (index + 1) % N
          /\ ~paused
          /\ paused' = paused
          /\ items' = items]_vars

\* C18 witness: the last step was a tick on the last of several slides, and
\* the index has wrapped to 0.
C18_Witness ==
    /\ N > 1
    /\ lastTick = {[pre |-> N - 1]}
    /\ index = 0

\* C19: a carousel has at most one live interval timer, and a live timer was
\* armed under the current item count, the current interval and paused =
\* false (every timer armed under earlier values was cleared).
C19_OneCurrentTimer ==
    /\ Cardinality(timers) <= 1
    /\ \A t \in timers : t.n = N /\ t.ms = intervalMs /\ ~paused

\* C19 witness: the gallery carousel, mounted with no item and interval 3000,
\* runs its one timer under 3 items and interval 3500 after a hover.
C19_Witness ==
    /\ variant = "gallery"
    /\ N = 3
    /\ intervalMs = 3500
    /\ ~paused
    /\ pointerOver = FALSE
    /\ index = 2
    /\ timers = {[id |-> timerRef, n |-> 3, ms |-> 3500]}


-----------------------------------------------------------------------------
(* Claims about the deferred focus of the close control *)

\* C20: once the modal is displayed with its focus deferral pending, the focus
\* comes to rest on the close control unless the modal stops being displayed
\* first; the step that opens the modal does not move the focus itself, and
\* the close control has the focus only while the modal is displayed.
C20_FocusReachesClose ==
    /\ [](focus = "closeBtn" => ModalRendered)
    /\ [][(active = {} /\ active' # {}) => focus' = focus]_vars
    /\ (ModalRendered /\ focusTimers > 0) ~> (focus = "closeBtn" \/ ~ModalRendered)

\* C20 witness: the modal is displayed, its deferral has run (none is
\* pending), no key was pressed since, and the close control has the focus.
C20_Witness ==
    /\ ModalRendered
    /\ focusTimers = 0
    /\ lastKey = {}
    /\ focus = "closeBtn"


-----------------------------------------------------------------------------
(* C21 *)

\* C21: whenever an item is active (the modal is open) the total held for
\* display is the active item's price times the current quantity, and with no
\* active item it is 0.
C21_TotalIsPriceTimesQty ==
    /\ active # {} => total = ActiveItem.price * qty
    /\ active = {} => total = 0

\* C21 witness: the modal shows the second listing entry (price 25) with the
\* quantity raised to 3 and a total of 75.
C21_Witness ==
    /\ ModalRendered
    /\ ActiveItem.price = 25
    /\ qty = 3
    /\ total = 75


-----------------------------------------------------------------------------
(* C22 *)

\* The first present of four optional fields, written out field by field.
FirstPresent(a, b, c, d) ==
    IF a # {} THEN a ELSE IF b # {} THEN b ELSE IF c # {} THEN c ELSE d

\* The display item agrees with the claim on the source record src.
PriceNormalized(item, src) ==
    LET cur  == FirstPresent(src.price, src.selling_price, src.final_price,
                             src.base_price)
        orig == FirstPresent(src.compare_at_price, src.original_price,
                             src.normal_price, src.was)
    IN  /\ item.price = (IF cur = {} THEN 0 ELSE TheValue(cur))
        /\ \A w \in item.was : IsNumber(w) /\ w > item.price
        /\ (orig = {} \/ ~IsNumber(TheValue(orig)) \/ TheValue(orig) <= item.price)
               => item.was = {}
        /\ (orig # {} /\ IsNumber(TheValue(orig)) /\ TheValue(orig) > item.price)
               => item.was = orig

\* C22: every display item has an original price that is absent or a number
\* strictly greater than its current price; a source original price that is
\* not a number or not above the current price is dropped; the current price
\* is the first present of price, selling_price, final_price, base_price,
\* else 0. The item held by the open modal is such an item too.
C22_PriceNormalization ==
    /\ \A k \in 1..Len(saleItems) : PriceNormalized(saleItems[k], TheValue(data)[k])
    /\ \A a \in active : \A w \in a.was : IsNumber(w) /\ w > a.price

\* C22 witness: the entry has no price and no selling_price, final_price 6,
\* base_price 7, compare_at_price the string "8" and original_price 8: the
\* item's price is 6 and its original price is dropped.
C22_Witness ==
    /\ Len(saleItems) = 1
    /\ TheValue(data)[1].price = {}
    /\ TheValue(data)[1].selling_price = {}
    /\ TheValue(data)[1].final_price = {6}
    /\ TheValue(data)[1].base_price = {7}
    /\ TheValue(data)[1].compare_at_price = {NumericString(8)}
    /\ TheValue(data)[1].original_price = {8}
    /\ saleItems[1].price = 6
    /\ saleItems[1].was = {}


-----------------------------------------------------------------------------
(* C23 *)

\* C23: with N > 1 fixed, a run that started at index i (or at the dot j
\* selected during it) and then took k forward steps (ticks, "next" clicks)
\* and m backward steps ("prev" clicks), in any order, is at index
\* (i + k - m) mod N.
C23_NoLostUpdate ==
    \A r \in navRun : N > 1 => index = (r.start + r.fwd - r.back) % N

\* C23 witness: three slides, dot 2 selected, then two forward steps, a tick
\* among them, and one backward step: the index is (2 + 2 - 1) mod 3 = 0.
C23_Witness ==
    /\ N = 3
    /\ navRun = {[start |-> 2, fwd |-> 2, back |-> 1, ticked |-> TRUE, dot |-> TRUE]}
    /\ index = 0


-----------------------------------------------------------------------------
(* C24 *)

\* C24: while an item is active, the selected color is the name of one of its
\* color options, the selected size is one of its size labels and the active
\* image index is a position of its image list; and no step takes a color or
\* a size that is set back to null.
C24_SelectionValid ==
    /\ [](active # {} =>
            /\ color # Null
            /\ \E k \in 1..Len(ColorOptions(ActiveItem)) :
                   ColorOptions(ActiveItem)[k].name = color
            /\ size # Null
            /\ \E k \in 1..Len(SizeOptions(ActiveItem)) : SizeOptions(ActiveItem)[k] = size
            /\ activeImg \in 0..(Len(GalleryOf(ActiveItem)) - 1))
    /\ [][/\ color # Null => color' # Null
          /\ size # Null => size' # Null]_vars

\* C24 witness: the modal is displayed with nothing pending, and the user has
\* moved the selection off the defaults to the last color and the last size.
C24_Witness ==
    /\ ModalRendered
    /\ focusTimers = 0
    /\ lastOpen = {}
    /\ color = "Grey"
    /\ size = "XXL"
    /\ activeImg = 0


-----------------------------------------------------------------------------
(* C25 *)

\* C25: the wrap-around is never computed with an item count of 0: every live
\* timer captured a count >= 1 and the current count is >= 1 while it lives,
\* the arrows exist only with a count >= 1, a tick or an arrow click has only
\* been applied with a count >= 1, and the images-prop variant never has a
\* count of 0.
C25_NoWrapOverZero ==
    /\ \A t \in timers : t.n >= 1 /\ N >= 1
    /\ ArrowsShown => N >= 1
    /\ (lastTick # {} \/ trail # <<>>) => (N >= 1 /\ index # NaN)
    /\ variant = "images" => N >= 1

\* C25 witness: the images-prop variant was given an empty list, shows the
\* three default slides, and a tick has just wrapped from the last to the
\* first.
C25_Witness ==
    /\ variant = "images"
    /\ images = {<<>>}
    /\ N = 3
    /\ lastTick = {[pre |-> 2]}
    /\ index = 0


-----------------------------------------------------------------------------
(* C26 *)

\* The state of each widget, without the history variables and the pointer.
CarouselState == <<variant, mounted, galleryData, galleryLoading, galleryError,
                   images, intervalMs, index, paused, timers, timerRef, hasCleanup>>

ModalState == <<saleMounted, data, isLoading, isError, itemsGen, active, activeImg,
                color, size, qty, total, overflow, focusTimers, focus>>

\* C26: hover enter and hover leave leave the index (and the items and the
\* interval) unchanged; next, prev and a dot leave the paused flag (and the
\* items, the interval and the timer) unchanged; and no step changes the
\* state of both widgets: a step that changes the carousel leaves the modal's
\* state alone, and a step that changes the modal's leaves the carousel alone.
C26_FrameConditions ==
    [][/\ (MouseEnter \/ MouseLeave) =>
              /\ index' = index
              /\ UNCHANGED <<variant, mounted, galleryData, galleryLoading,
                             galleryError, images, intervalMs>>
       /\ (ClickNext \/ ClickPrev \/ ClickDot) =>
              /\ paused' = paused
              /\ UNCHANGED <<variant, mounted, galleryData, galleryLoading,
                             galleryError, images, intervalMs, timers, timerRef,
                             hasCleanup>>
       /\ CarouselState' # CarouselState => ModalState' = ModalState
       /\ ModalState' # ModalState => CarouselState' = CarouselState]_vars

\* C26 witness: the modal is open with the close button focused while the
\* images-prop carousel, advanced to its last slide, is paused under the
\* pointer.
C26_Witness ==
    /\ ModalRendered
    /\ focus = "closeBtn"
    /\ variant = "images"
    /\ N = 3
    /\ index = 2
    /\ paused
    /\ pointerOver

=============================================================================
